---- MODULE Spec2Model ----
(***************************************************************************)
(* The incremental update task of readarr-server (src/tasks/update.ts) and *)
(* the store operations of src/model.ts it uses.                           *)
(*                                                                         *)
(* Time is counted in ticks, TicksPerDay ticks to a UTC day; a Date is the *)
(* tick it denotes.  The process is taken to run with TZ=UTC, so the local *)
(* getters and setters of Date (setDate, toDateString) agree with UTC.     *)
(* An upstream record that is saved carries the key it was fetched for.    *)
(* A local of a function is reset when the function returns, and an entry  *)
(* of unprocessedKeys when processKeys has taken its copy of it: neither   *)
(* is read again.                                                          *)
(***************************************************************************)
EXTENDS Integers, Sequences, FiniteSets, Bags, TLC

----------------------------------------------------------------------------
(* Bounds of the model *)

TicksPerDay == 2
\* the day the clock starts in
StartDay == 3
\* clock ticks that may pass
MaxTicks == 1
NAuthors == 3
NWorks == 1
NBooks == 1
\* config.update.batchSize (UPDATE_BATCH_SIZE)
BatchSize == 2
\* feed pages of Limit entries the upstream may return
MaxFullPages == 1
\* the same where the cap on the pages of a day and kind is looked at
FeedFullPages == 12
\* feed page fetches that may fail
MaxFeedFails == 2
\* record fetches that may fail
MaxFetchFails == 2
\* revisions of one record that upstream can return
MaxRevision == 2
\* triggers the server handles
MaxRequests == 2

(* Program constants *)

\* config.update.retries
Retries == 1
\* limit of addChangedKeys
Limit == 1000
\* while (offset <= 10000)
OffsetCap == 10000
\* a page that is neither empty nor full
ShortPage == Limit - 1
\* 5 * 60 * 1000
Cooldown == 300000
\* the sleep after a full feed page, ms
FeedPause == 1000
\* the sleep after a failed feed request, ms
RetryPause == 5000
\* the sleep after the fetch of a record, ms
FetchPause == 200

Procs == {1, 2}

Types == <<"author", "work", "edition">>
TypeSet == {"author", "work", "edition"}

kinds == <<"add-book", "edit-book", "merge-authors", "revert", "update">>

----------------------------------------------------------------------------
(* Keys: a namespace prefix and a number, /authors/OL1A *)

Key(ns, id) == [ns |-> ns, id |-> id]

AuthorKeys == {Key("authors", i) : i \in 1..NAuthors}
WorkKeys == {Key("works", i) : i \in 1..NWorks}
BookKeys == {Key("books", i) : i \in 1..NBooks}
OtherKeys == {Key("people", 1)}
Keys == AuthorKeys \cup WorkKeys \cup BookKeys
AllKeys == Keys \cup OtherKeys

Range(s) == {s[i] : i \in 1..Len(s)}

\* the set a changed key is classified into, by its prefix
Classify(key) ==
  IF key.ns = "authors" THEN "author"
  ELSE IF key.ns = "works" THEN "work"
  ELSE IF key.ns = "books" THEN "edition"
  ELSE "none"

\* Array.push in place of Set.add
Push(s, key) == Append(s, key)

\* Set.add: insertion ordered, no duplicates
SetAdd(s, key) == IF key \in Range(s) THEN s ELSE Append(s, key)

----------------------------------------------------------------------------
(* Dates *)

Day(t) == t \div TicksPerDay

\* setUTCHours(0, 0, 0, 0)
StartOfDay(t) == Day(t) * TicksPerDay

\* setDate(getDate() + n)
AddDays(t, n) == t + n * TicksPerDay

\* toISOString().split('T')[0], read back by new Date()
DateOnly(t) == StartOfDay(t)

\* the value saveDatetime stores
DateString(t, dateOnly) == IF dateOnly THEN DateOnly(t) ELSE t

\* yesterday of update(): new Date(), setDate(getDate() - 1), saved date only
Yesterday(t) == DateString(AddDays(t, -1), TRUE)

\* setHours, setMinutes, setSeconds of date to those of t: lines 64-67
SetTime(date, t) == StartOfDay(date) + (t % TicksPerDay)

\* while (date < currentDate)
DayInRange(date, currentDate) == date < currentDate

----------------------------------------------------------------------------
(* The store table: a row per key, absent, SQL NULL or a JSON value *)

Absent == [st |-> "absent", v |-> <<>>]
Null == [st |-> "null", v |-> <<>>]
Val(x) == [st |-> "val", v |-> x]

\* JSON.stringify(value) of setStore, null kept as NULL
StoreValue(x) == Val(x)

\* the keys getStore and setStore are called with by default, caching on:
\* update_keys_time, update_finished, update_error
StoreKeys == {"keysTime", "finished", "error"}

\* store.get(key) of a key the StoreManager does not hold: store.ts lines 8-10
Undefined == [st |-> "undefined", v |-> <<>>]

\* the string JSON.stringify(x)
Json(x) == [st |-> "json", v |-> x]

\* setStore, line 296: value === null ? null : JSON.stringify(value)
StringifyOrNull(value) == IF value = Null THEN Null ELSE Json(value.v)

\* the jsonb column as pg returns it: the text parsed, NULL as null
Parsed(text) == IF text.st = "json" THEN Val(text.v) ELSE text

\* value ?? null of getStore: a missing row reads as null
OrNull(value) == IF value = Absent THEN Null ELSE value

\* getStore, lines 280-291: the value it returns
GetStoreValue(db, cached, key) ==
  IF cached[key] # Undefined THEN cached[key] ELSE OrNull(db[key])

\* getStore, lines 287-289: the StoreManager after it
GetStoreCache(db, cached, key, cache) ==
  IF cached[key] = Undefined /\ cache
  THEN [cached EXCEPT ![key] = OrNull(db[key])]
  ELSE cached

\* setStore, lines 308-310: the StoreManager after it
SetStoreCache(cached, key, value, cache) ==
  IF cache THEN [cached EXCEPT ![key] = StringifyOrNull(value)] ELSE cached

\* no getStore has returned yet
NoRead == [key |-> "none", value |-> Absent]

\* getStore(key) ?? [] of getUnprocessedKeys
ReadKeys(row) == IF row.st = "val" THEN row.v ELSE <<>>

\* the keys a persisted queue holds
PersistedKeys(row) == IF row.st = "val" THEN Range(row.v) ELSE {}

\* ord >= $3
ChopFrom(q, size) == SubSeq(q, size, Len(q))

\* ord > $3
Chop(q, size) == SubSeq(q, size + 1, Len(q))

\* jsonb_agg over no rows is NULL
JsonbAgg(q) == IF q = <<>> THEN Null ELSE Val(q)

\* the UPDATE without the second branch of its UNION ALL
SaveBatchUpdateChopOnly(row, size, failedKeys) ==
  IF row.st = "absent" THEN row
  ELSE JsonbAgg(Chop(ReadKeys(row), size))

\* the UPDATE of saveBatchUpdate; it changes no row when the key has none
SaveBatchUpdate(row, size, failedKeys) ==
  IF row.st = "absent" THEN row
  ELSE JsonbAgg(Chop(ReadKeys(row), size) \o failedKeys)

----------------------------------------------------------------------------
(* processKeys *)

Min(a, b) == IF a < b THEN a ELSE b

\* remainingKeys.slice(0, config.update.batchSize)
Batch(remainingKeys) == SubSeq(remainingKeys, 1, Min(BatchSize, Len(remainingKeys)))

\* remainingKeys without the failed keys of the batch
RequeueRest(remainingKeys, batch, failedKeys) ==
  SubSeq(remainingKeys, Len(batch) + 1, Len(remainingKeys))

\* remainingKeys after a batch
Requeue(remainingKeys, batch, failedKeys) ==
  SubSeq(remainingKeys, Len(batch) + 1, Len(remainingKeys)) \o failedKeys

\* failedKeys.length >= batch.length / 2
HalfFailed(failedKeys, batch) == 2 * Len(failedKeys) >= Len(batch)

\* failedKeys.length > batch.length / 2
TooManyFailed(failedKeys, batch) == 2 * Len(failedKeys) > Len(batch)

\* delay after a batch
NextDelay(delay, failedKeys, batch) ==
  IF failedKeys # <<>> /\ TooManyFailed(failedKeys, batch) THEN Cooldown ELSE delay

\* the condition on the authors alone
NoSavedAuthors(uk) ==
  Len(uk["author"]) = 0

\* the condition under which update() looks for new keys
NoSavedKeys(uk) ==
  Len(uk["author"]) = 0 /\ Len(uk["work"]) = 0 /\ Len(uk["edition"]) = 0

----------------------------------------------------------------------------
(* The recent changes feed *)

\* what one page request can come to: an array of len entries whose changes
\* name the keys given, or a failure
\* The keys of one namespace are interchangeable, so the feed names a new key
\* of a namespace only after those of a lower number; of the keys it named
\* before it may name the first of each namespace again.
FeedKeys(sets) ==
  LET seen == UNION {Range(sets[t]) : t \in DOMAIN sets}
  IN {k \in AllKeys :
        /\ \A j \in AllKeys : (j.ns = k.ns /\ j.id < k.id) => j \in seen
        /\ k \in seen => k.id = 1}

OkPages(sets) ==
  {[ok |-> TRUE, len |-> 0, keys |-> <<>>, fail |-> "none"]} \cup
  {[ok |-> TRUE, len |-> n, keys |-> ks, fail |-> "none"] :
     n \in {ShortPage, Limit}, ks \in {<<>>} \cup {<<k>> : k \in FeedKeys(sets)}}

\* network: fetch rejects, and so does response.json() of a 2xx body that
\* does not parse: the error carries no response; status: a non-2xx response
\* whose body can be read; ok_nonarray: a 2xx response with JSON that is no
\* array, read by response.json() in the try block (a non-2xx response that
\* announces JSON and does not parse fails in the catch block the same way);
\* ok_malformed: a 2xx response with an array whose first entry has no
\* changes, so that the forEach of line 199 throws a TypeError
FeedFailures == {"network", "status", "ok_nonarray", "ok_malformed"}

FailedPages == {[ok |-> FALSE, len |-> 0, keys |-> <<>>, fail |-> f] : f \in FeedFailures}

\* error.response is set by the throw of line 192 alone
HasResponse(f) == f \in {"status", "ok_nonarray"}

\* error.response.status, 0 for null
Status(f) ==
  IF ~HasResponse(f) THEN 0 ELSE IF f = "ok_nonarray" THEN 200 ELSE 500

\* error.response.json() and error.response.text() of line 229 reject when
\* the body was read before
ErrorDataThrows(f) == f = "ok_nonarray"

\* `${error.name}: ${error.message}` of the error that reaches update()
ErrorMessage(f) ==
  CASE f = "ok_nonarray" -> "TypeError: Body already used"
    [] f = "ok_malformed" -> "TypeError: undefined is not an object"
    [] f = "network" -> "TypeError: fetch failed"
    [] OTHER -> "Error: Server Error"

\* line 197 is reached before the throw
ThrowsAfterReset(f) == f = "ok_malformed"

\* retries when the catch block is entered
RetriesAtCatch(retries, f) == IF ThrowsAfterReset(f) THEN 0 ELSE retries

\* if (++retries > config.update.retries)
RetriesExceeded(retries) == retries + 1 > Retries

\* a break on an empty page alone
LastPageEmpty(len) == len = 0

\* if (data.length < limit) break
LastPage(len) == len < Limit

\* the same with a last else that adds the key to the editions
AddKeysElse(sets, keys) ==
  [t \in TypeSet |->
     IF keys # <<>> /\ (Classify(keys[1]) = t \/ (Classify(keys[1]) = "none" /\ t = "edition"))
     THEN SetAdd(sets[t], keys[1]) ELSE sets[t]]

\* the forEach of addChangedKeys over one page
AddKeys(sets, keys) ==
  [t \in TypeSet |->
     IF keys # <<>> /\ Classify(keys[1]) = t THEN SetAdd(sets[t], keys[1]) ELSE sets[t]]

----------------------------------------------------------------------------
(* State *)

VARIABLES
  store,        \* the store table
  tables,       \* the rows of authors, works, editions and author_works
  editionsMax,  \* max(last_modified) of editions
  inflight,     \* the write getUpdateTime does not await
  now,          \* the wall clock
  run,          \* the invocations of update(), by process
  env,          \* what the environment has done so far
  entered       \* history: the keys that ever entered a persisted queue

vars == <<store, tables, editionsMax, inflight, now, run, env, entered>>

----------------------------------------------------------------------------
(* saveModel: model.ts lines 673-726 *)

\* a record as upstream returns it; authors and works are optional
Base(key, type, revision, time) ==
  [key |-> key, type |-> [key |-> type], revision |-> revision,
   last_modified |-> [type |-> "/type/datetime", value |-> time]]

\* the table of a key: lines 674-679
Table(key) ==
  IF key.ns = "authors" THEN "authors"
  ELSE IF key.ns = "works" THEN "works"
  ELSE IF key.ns = "books" THEN "editions"
  ELSE "unknown"

\* JSON.stringify(record): the text of the record, from which the record
\* is read back
Stringify(record) == [json |-> record]

\* record.works?.[0]?.key ?? null: line 696
FirstWorkKey(record) ==
  IF /\ "works" \in DOMAIN record
     /\ Len(record.works) > 0
     /\ "key" \in DOMAIN record.works[1]
  THEN Val(record.works[1].key)
  ELSE Null

\* record.authors?.[0]?.author.key reads a property of undefined: line 701
AuthorsThrows(record) ==
  /\ "authors" \in DOMAIN record
  /\ Len(record.authors) > 0
  /\ "author" \notin DOMAIN record.authors[1]

\* record.authors?.[0]?.author.key is truthy: line 701
HasFirstAuthor(record) ==
  /\ "authors" \in DOMAIN record
  /\ Len(record.authors) > 0
  /\ "author" \in DOMAIN record.authors[1]
  /\ "key" \in DOMAIN record.authors[1].author

\* lines 681 and 693-698
Columns(table) ==
  <<"type", "key", "revision", "last_modified", "data">>
    \o (IF table = "editions" THEN <<"work_key">> ELSE <<>>)

\* lines 682-688 and 696
Values(record, table) ==
  [c \in Range(Columns(table)) |->
     IF c = "type" THEN record.type.key
     ELSE IF c = "key" THEN record.key
     ELSE IF c = "revision" THEN record.revision
     ELSE IF c = "last_modified" THEN record.last_modified.value
     ELSE IF c = "data" THEN Stringify(record)
     ELSE FirstWorkKey(record)]

\* the columns of the update without data
UpdateSetNoData(columns) == Range(columns) \ {"key", "data"}

\* the columns DO UPDATE SET assigns: lines 713-716
UpdateSet(columns) == Range(columns) \ {"key"}

\* INSERT ... ON CONFLICT (key) DO UPDATE SET ...: lines 718-725
Upsert(rows, columns, values) ==
  IF \E r \in rows : r.key = values.key
  THEN {IF r.key = values.key
        THEN [c \in DOMAIN r |-> IF c \in UpdateSet(columns) THEN values[c] ELSE r[c]]
        ELSE r : r \in rows}
  ELSE rows \cup {values}

\* the pair of a work record with a first author
AuthorWork(record) ==
  [author_key |-> record.authors[1].author.key, work_key |-> record.key]

\* the insert without ON CONFLICT
InsertAuthorWorkAgain(pairs, record) == pairs (+) SetToBag({AuthorWork(record)})

\* INSERT INTO author_works ... ON CONFLICT (author_key, work_key) DO NOTHING:
\* lines 702-710; the rows of the table are a bag
InsertAuthorWork(pairs, record) ==
  IF BagIn(AuthorWork(record), pairs) THEN pairs
  ELSE pairs (+) SetToBag({AuthorWork(record)})

\* saveModel throws before it writes: lines 678 and 701
SaveModelThrows(record) ==
  \/ Table(record.key) = "unknown"
  \/ Table(record.key) = "works" /\ AuthorsThrows(record)

\* the tables after saveModel(record)
SaveModel(db, record) ==
  IF SaveModelThrows(record) THEN db
  ELSE LET table == Table(record.key)
           pairs == IF table = "works" /\ HasFirstAuthor(record)
                    THEN InsertAuthorWork(db.author_works, record)
                    ELSE db.author_works
       IN [[db EXCEPT !.author_works = pairs]
             EXCEPT ![table] = Upsert(@, Columns(table), Values(record, table))]

\* the tables when saveModel(record) has thrown because the query of line
\* 725 was rejected: the insert of lines 702-710 is a query of its own and
\* stays
SaveModelRejected(db, record) ==
  IF SaveModelThrows(record) THEN db
  ELSE IF Table(record.key) = "works" /\ HasFirstAuthor(record)
  THEN [db EXCEPT !.author_works = InsertAuthorWork(@, record)]
  ELSE db

EmptyTables == [authors |-> {}, works |-> {}, editions |-> {}, author_works |-> EmptyBag]

\* the keys that have a row
RowKeys(db) == {r.key : r \in db.authors \cup db.works \cup db.editions}

records == RowKeys(tables)

\* the type upstream gives a record of the kind of the key
TypeOf(key) ==
  IF key.ns = "authors" THEN "/type/author"
  ELSE IF key.ns = "works" THEN "/type/work"
  ELSE "/type/edition"

\* the record upstream returns for a key when the request succeeds: a work
\* by the first author, an edition of the first work
Upstream(key) ==
  LET base == Base(key, TypeOf(key), 1, 1)
  IN IF key.ns = "works"
     THEN base @@ [authors |-> <<[author |-> [key |-> Key("authors", 1)]]>>]
     ELSE IF key.ns = "books"
     THEN base @@ [works |-> <<[key |-> Key("works", 1)]>>]
     ELSE base

RECURSIVE SaveAll(_, _)
\* the tables after the records of the keys were saved
SaveAll(db, keys) ==
  IF keys = {} THEN db
  ELSE LET key == CHOOSE k \in keys : TRUE
       IN SaveAll(SaveModel(db, Upstream(key)), keys \ {key})

----------------------------------------------------------------------------
(* What invocations start from *)

EmptyKeys == [t \in TypeSet |-> <<>>]

NoUrl == [day |-> 0, kind |-> "none", offset |-> 0]

IdleRun ==
  [pc |-> "idle", unprocessedKeys |-> EmptyKeys, sets |-> EmptyKeys,
   currentDate |-> 0, date |-> 0, kind |-> 1, offset |-> 0, retries |-> 0,
   type |-> 1, remainingKeys |-> <<>>, batch |-> <<>>, i |-> 1,
   failedKeys |-> <<>>, delay |-> 0,
   \* history of the run
   path |-> "none", wasEmpty |-> FALSE, watermark0 |-> 0, crawled |-> {},
   requested |-> FALSE, wroteWatermark |-> FALSE, fetched |-> FALSE,
   failure |-> "none", failedUrl |-> NoUrl, checkpoint |-> EmptyKeys,
   dayEmpty |-> FALSE,
   \* the time slept since the last request, ms
   pause |-> 0,
   \* data of updateModel: the record fetched and not yet saved, if any
   data |-> <<>>,
   \* the StoreManager of the process: store.ts line 6
   cache |-> [key \in StoreKeys |-> Undefined],
   \* the value last passed to setStore for each key by this process
   written |-> [key \in StoreKeys |-> Absent],
   \* what getStore returned, if it was called since the last setStore
   got |-> NoRead,
   \* what the feed has done in this pass
   fullPages |-> 0, feedFails |-> 0]

\* a fixed time before the clock starts
Earlier == (StartDay - 1) * TicksPerDay + 1

EarlierError == [time |-> Earlier, url |-> NoUrl, status |-> 500, error |-> "body"]

EmptyStore ==
  [q |-> [t \in TypeSet |-> Absent], keysTime |-> Absent, keysStart |-> Absent,
   started |-> Absent, finished |-> Absent, error |-> Absent, keysError |-> Absent]

A(i) == Key("authors", i)
W(i) == Key("works", i)
B(i) == Key("books", i)

\* the queues a discovery pass left that found every key
FullQueues ==
  [t \in TypeSet |->
     Val(IF t = "author" THEN [i \in 1..NAuthors |-> A(i)]
         ELSE IF t = "work" THEN [i \in 1..NWorks |-> W(i)]
         ELSE [i \in 1..NBooks |-> B(i)])]

\* What earlier invocations can have left in the database:
\* the import alone, before update() ever ran (the watermark comes from
\* the editions, two days back or of today);
Fresh ==
  {[store |-> EmptyStore, records |-> {}, editionsMax |-> m] :
     m \in {(StartDay - 2) * TicksPerDay + 1, StartDay * TicksPerDay}}

\* a run that finished yesterday: its queues were drained, the queue of a
\* type it found no key of is still the empty array;
Finished ==
  {[store |-> [EmptyStore EXCEPT
                 !.q = [t \in TypeSet |-> IF t = "edition" THEN Val(<<>>) ELSE Null],
                 !.keysTime = Val(d * TicksPerDay), !.keysStart = Val(Earlier),
                 !.started = Val(Earlier), !.finished = Val(Earlier), !.error = Null],
     records |-> {A(1), W(1)}, editionsMax |-> 0] :
     d \in {StartDay - 1}}

\* a discovery pass that failed after its last checkpoint, following a run
\* that finished;
FailedAfterCheckpoint ==
  {[store |-> [EmptyStore EXCEPT
                 !.q = FullQueues,
                 !.keysTime = Val((StartDay - 1) * TicksPerDay), !.keysStart = Val(Earlier),
                 !.started = Val(Earlier), !.finished = Val(Earlier),
                 !.error = Val("Error: Server Error"), !.keysError = Val(EarlierError)],
     records |-> {}, editionsMax |-> 0]}

\* a discovery pass that failed on the first day it crawled, following a
\* run that finished;
FailedAtOnce ==
  {[store |-> [EmptyStore EXCEPT
                 !.q = [t \in TypeSet |-> Null],
                 !.keysTime = Val((StartDay - 2) * TicksPerDay), !.keysStart = Val(Earlier),
                 !.started = Val(Earlier - 1), !.finished = Val(Earlier - 1),
                 !.error = Val("Error: Server Error"), !.keysError = Val(EarlierError)],
     records |-> {}, editionsMax |-> 0]}

\* a run that finished two days ago and none since;
Behind ==
  {[store |-> [EmptyStore EXCEPT
                 !.q = [t \in TypeSet |-> Null],
                 !.keysTime = Val((StartDay - 3) * TicksPerDay),
                 !.keysStart = Val((StartDay - 2) * TicksPerDay),
                 !.started = Val((StartDay - 2) * TicksPerDay),
                 !.finished = Val((StartDay - 2) * TicksPerDay), !.error = Null],
     records |-> {}, editionsMax |-> 0]}

\* a run killed while it processed its first batch of authors, one killed
\* after a batch in which the first author failed, and one killed when it
\* had drained the authors.
Killed ==
  {[store |-> [EmptyStore EXCEPT
                 !.q = FullQueues,
                 !.keysTime = Val((StartDay - 1) * TicksPerDay), !.keysStart = Val(Earlier),
                 !.started = Val(Earlier), !.finished = Null],
     records |-> {A(1)}, editionsMax |-> 0],
   [store |-> [EmptyStore EXCEPT
                 !.q = [FullQueues EXCEPT
                          !["author"] = SaveBatchUpdate(@, BatchSize, <<A(1)>>)],
                 !.keysTime = Val((StartDay - 1) * TicksPerDay), !.keysStart = Val(Earlier),
                 !.started = Val(Earlier), !.finished = Null],
     records |-> {A(i) : i \in 2..BatchSize}, editionsMax |-> 0],
   [store |-> [EmptyStore EXCEPT
                 !.q = [FullQueues EXCEPT !["author"] = Null],
                 !.keysTime = Val((StartDay - 1) * TicksPerDay), !.keysStart = Val(Earlier),
                 !.started = Val(Earlier), !.finished = Null],
     records |-> AuthorKeys, editionsMax |-> 0]}

\* the keys whose records upstream revises while invocations run
RevisedKeys == {A(1), A(2)}

\* the database as one of S describes it, and an upstream that returns up to
\* pages full pages to a discovery pass and fails every request of the
\* record of a key of broken
InitDb(S, pages, broken) ==
  /\ now = StartDay * TicksPerDay + (TicksPerDay - 1)
  /\ \E s \in S :
       /\ store = s.store
       /\ tables = SaveAll(EmptyTables, s.records)
       /\ editionsMax = s.editionsMax
       /\ entered = UNION {PersistedKeys(s.store.q[t]) : t \in TypeSet} \cup s.records
  /\ inflight = Absent
  /\ env = [ticks |-> 0, fetchFails |-> 0, maxFullPages |-> pages, broken |-> broken,
            revision |-> [key \in RevisedKeys |-> 1],
            \* the server: what it has handled, and the last of it
            requests |-> 0, trigger |-> "none", path |-> "", peer |-> "",
            \* whether an invocation was at work when it was handled
            busy |-> FALSE]

\* the same with no invocation running
InitEnv(S, pages, broken) ==
  /\ InitDb(S, pages, broken)
  /\ run = [p \in Procs |-> IdleRun]

\* the same with an upstream that has every record
InitWith(S, pages) == InitEnv(S, pages, {})

InitFrom(S) == InitWith(S, MaxFullPages)

Init == InitFrom(Fresh \cup Finished \cup FailedAfterCheckpoint \cup FailedAtOnce \cup Killed)

\* the states in which an invocation finds keys to process
InitSaved == InitFrom(FailedAfterCheckpoint \cup Killed)

\* two days are left to crawl
InitBehind == InitFrom(Behind)

\* a day is left to crawl and the upstream has many changes
InitFeed == InitWith(FailedAtOnce, FeedFullPages)

\* saved keys are found and the record of at most one of them can never be
\* fetched
InitBroken ==
  \E broken \in {{}, {A(1)}, {W(1)}} :
    InitEnv({s \in FailedAfterCheckpoint \cup Killed :
               \A k \in broken : k \in PersistedKeys(s.store.q[Classify(k)])},
            MaxFullPages, broken)

\* two invocations that found the same saved keys are both about to call
\* updateModel
InitRace ==
  /\ InitDb(FailedAfterCheckpoint, MaxFullPages, {})
  /\ run = [p \in Procs |-> [IdleRun EXCEPT !.pc = "updateModel", !.path = "resume"]]

\* no invocation has run and the tables are empty
\* the server is up and has spawned no task; earlier invocations left
\* saved keys
InitServer ==
  /\ InitDb(FailedAfterCheckpoint \cup Killed, MaxFullPages, {})
  /\ run = [p \in Procs |-> [IdleRun EXCEPT !.pc = "unspawned"]]

\* a process that calls setStore and getStore, on an empty store
InitStore ==
  /\ InitDb({[store |-> EmptyStore, records |-> {}, editionsMax |-> 0]}, MaxFullPages, {})
  /\ run = [p \in Procs |-> [IdleRun EXCEPT !.pc = IF p = 1 THEN "store" ELSE "idle"]]

InitSave == InitFrom({[store |-> EmptyStore, records |-> {}, editionsMax |-> 0]})

Terminal == {"idle", "finished", "failed", "killed"}

Live(p) == run[p].pc \notin Terminal

----------------------------------------------------------------------------
(* The environment *)

Tick ==
  /\ env.ticks < MaxTicks
  /\ now' = now + 1
  /\ env' = [env EXCEPT !.ticks = @ + 1]
  /\ UNCHANGED <<store, tables, editionsMax, inflight, run, entered>>

\* the write of getUpdateTime reaches the database
Land ==
  /\ inflight.st = "val"
  /\ store' = [store EXCEPT !.keysTime = inflight]
  /\ inflight' = Absent
  /\ UNCHANGED <<tables, editionsMax, now, run, env, entered>>

----------------------------------------------------------------------------
(* update(): lines 9-21 *)

\* getUnprocessedKeys
GetUnprocessedKeys == [t \in TypeSet |-> ReadKeys(store.q[t])]

\* no persisted queue holds a key
QueuesEmpty == \A t \in TypeSet : PersistedKeys(store.q[t]) = {}

\* update() is entered: lines 11-14
Update(p) ==
  /\ run[p].pc = "idle"
  /\ LET uk == GetUnprocessedKeys IN
       run' = [run EXCEPT ![p] =
                 [IdleRun EXCEPT !.unprocessedKeys = uk,
                                 !.wasEmpty = QueuesEmpty,
                                 !.path = IF NoSavedKeys(uk) THEN "discovery" ELSE "resume",
                                 !.pc = IF NoSavedKeys(uk) THEN "fetchKeys" ELSE "started"]]
  /\ UNCHANGED <<store, tables, editionsMax, inflight, now, env, entered>>

\* getUpdateTime: the stored watermark, or max(last_modified) of editions at
\* the start of its UTC day
GetUpdateTime ==
  IF store.keysTime.st = "val" THEN store.keysTime.v ELSE StartOfDay(editionsMax)

\* line 15 and fetchKeys up to its loop: lines 43-56
FetchKeys(p) ==
  /\ run[p].pc = "fetchKeys"
  /\ store' = [store EXCEPT !.keysStart = StoreValue(DateString(now, FALSE))]
  /\ inflight' = IF store.keysTime.st = "val" THEN inflight ELSE StoreValue(GetUpdateTime)
  /\ run' = [run EXCEPT ![p].currentDate = StartOfDay(now),
                        ![p].date = AddDays(GetUpdateTime, 1),
                        ![p].watermark0 = GetUpdateTime,
                        ![p].wroteWatermark = store.keysTime.st # "val",
                        ![p].pc = "loop"]
  /\ UNCHANGED <<tables, editionsMax, now, env, entered>>

\* lines 60-68 and 84-88: the loop test, the day being today, the return
FetchKeysLoop(p) ==
  /\ run[p].pc = "loop"
  /\ LET r == run[p] IN
       IF DayInRange(r.date, r.currentDate)
       THEN LET today == Day(r.date) = Day(r.currentDate) IN
              run' = [run EXCEPT ![p].currentDate = IF today THEN now ELSE @,
                                 ![p].date = IF today THEN SetTime(@, now) ELSE @,
                                 ![p].kind = 1, ![p].offset = 0, ![p].retries = 0,
                                 ![p].dayEmpty = TRUE,
                                 ![p].pc = "addChangedKeys"]
       ELSE run' = [run EXCEPT ![p].unprocessedKeys = r.sets,
                               ![p].sets = EmptyKeys, ![p].checkpoint = EmptyKeys,
                               ![p].currentDate = 0, ![p].date = 0,
                               ![p].fullPages = 0, ![p].feedFails = 0,
                               ![p].dayEmpty = FALSE, ![p].pause = 0,
                               ![p].pc = "yesterday"]
  /\ UNCHANGED <<store, tables, editionsMax, inflight, now, env, entered>>

\* the same with the watermark as the only write of the checkpoint
KindDoneTimeOnly(r) ==
  IF r.kind < Len(kinds)
  THEN [r EXCEPT !.kind = @ + 1, !.offset = 0, !.retries = 0]
  ELSE [r EXCEPT !.crawled = @ \cup {Day(r.date)},
                 !.kind = 1, !.offset = 0, !.retries = 0, !.pc = "save_time"]

\* the run after addChangedKeys returned for one kind: the next kind, or the
\* day's checkpoint
KindDone(r) ==
  IF r.kind < Len(kinds)
  THEN [r EXCEPT !.kind = @ + 1, !.offset = 0, !.retries = 0]
  ELSE [r EXCEPT !.crawled = @ \cup {Day(r.date)},
                 !.kind = 1, !.offset = 0, !.retries = 0, !.pc = "save_author"]

\* the same without the test of the while loop
PageReadNoCap(r, page) ==
  LET r1 == [r EXCEPT !.retries = 0, !.sets = AddKeys(@, page.keys),
                      !.requested = TRUE, !.pause = 0,
                      !.dayEmpty = @ /\ page.len = 0,
                      !.fullPages = IF page.len = Limit THEN @ + 1 ELSE @]
  IN IF LastPage(page.len) THEN KindDone(r1)
     ELSE [r1 EXCEPT !.offset = @ + Limit, !.pause = FeedPause]

\* the run after a page that was read: lines 197-218
PageRead(r, page) ==
  LET r1 == [r EXCEPT !.retries = 0, !.sets = AddKeys(@, page.keys),
                      !.requested = TRUE, !.pause = 0,
                      !.dayEmpty = @ /\ page.len = 0,
                      !.fullPages = IF page.len = Limit THEN @ + 1 ELSE @]
      r2 == [r1 EXCEPT !.offset = @ + Limit, !.pause = FeedPause]
  IN IF LastPage(page.len) THEN KindDone(r1)
     ELSE IF r2.offset <= OffsetCap THEN r2
     ELSE KindDone(r2)

\* the url of the request: the day, the kind and the offset
Url(r) == [day |-> Day(r.date), kind |-> kinds[r.kind], offset |-> r.offset]

\* errorData of line 223
ErrorData(r, f, t) ==
  [time |-> t, url |-> Url(r), status |-> Status(f),
   error |-> IF HasResponse(f) THEN "body" ELSE ErrorMessage(f)]

\* one request of addChangedKeys and what follows it: lines 181-241, and
\* the catch of update() when it throws
AddChangedKeys(p) ==
  /\ run[p].pc = "addChangedKeys"
  /\ LET r == run[p] IN
     \/ \E page \in OkPages(r.sets) :
          /\ page.len = Limit => r.fullPages < env.maxFullPages
          /\ run' = [run EXCEPT ![p] = PageRead(r, page)]
          /\ UNCHANGED store
     \/ \E page \in FailedPages :
          /\ r.feedFails < MaxFeedFails
          /\ IF RetriesExceeded(RetriesAtCatch(r.retries, page.fail))
             THEN /\ store' = [store EXCEPT
                                 !.keysError = IF ErrorDataThrows(page.fail) THEN @
                                               ELSE StoreValue(ErrorData(r, page.fail, now)),
                                 !.error = StoreValue(ErrorMessage(page.fail))]
                  /\ run' = [run EXCEPT ![p] =
                               [IdleRun EXCEPT !.path = r.path, !.wasEmpty = r.wasEmpty,
                                               !.watermark0 = r.watermark0,
                                               !.crawled = r.crawled,
                                               !.wroteWatermark = r.wroteWatermark,
                                               !.checkpoint = r.checkpoint,
                                               !.requested = TRUE,
                                               !.failure = page.fail,
                                               !.failedUrl = Url(r),
                                               !.pc = "failed"]]
             ELSE /\ run' = [run EXCEPT ![p].requested = TRUE,
                                        ![p].retries = RetriesAtCatch(@, page.fail) + 1,
                                        ![p].pause = RetryPause,
                                        ![p].feedFails = @ + 1]
                  /\ UNCHANGED store
  /\ UNCHANGED <<tables, editionsMax, inflight, now, env, entered>>

\* lines 76-78: one queue is saved
SaveKeys(p, t) ==
  /\ run[p].pc = "save_" \o t
  /\ store' = [store EXCEPT !.q[t] = StoreValue(run[p].sets[t])]
  /\ entered' = entered \cup Range(run[p].sets[t])
  /\ run' = [run EXCEPT ![p].pc =
               IF t = "author" THEN "save_work"
               ELSE IF t = "work" THEN "save_edition" ELSE "save_time"]
  /\ UNCHANGED <<tables, editionsMax, inflight, now, env>>

\* the watermark saved only for a day that had entries
SaveTimeOfChanges(p) ==
  /\ run[p].pc = "save_time"
  /\ store' = [store EXCEPT !.keysTime = IF run[p].dayEmpty THEN @
                                         ELSE StoreValue(DateString(run[p].date, FALSE))]
  /\ run' = [run EXCEPT ![p].date = AddDays(@, 1), ![p].wroteWatermark = TRUE,
                        ![p].checkpoint = run[p].sets, ![p].pc = "loop"]
  /\ UNCHANGED <<tables, editionsMax, inflight, now, env, entered>>

\* lines 79-81: the watermark is saved and the date moves on
SaveTime(p) ==
  /\ run[p].pc = "save_time"
  /\ store' = [store EXCEPT !.keysTime = StoreValue(DateString(run[p].date, FALSE))]
  /\ run' = [run EXCEPT ![p].date = AddDays(@, 1), ![p].wroteWatermark = TRUE,
                        ![p].checkpoint = run[p].sets, ![p].pc = "loop"]
  /\ UNCHANGED <<tables, editionsMax, inflight, now, env, entered>>

\* lines 18-20
SaveYesterday(p) ==
  /\ run[p].pc = "yesterday"
  /\ store' = [store EXCEPT !.keysTime = StoreValue(Yesterday(now))]
  /\ run' = [run EXCEPT ![p].wroteWatermark = TRUE, ![p].pc = "started"]
  /\ UNCHANGED <<tables, editionsMax, inflight, now, env, entered>>

----------------------------------------------------------------------------
(* update(): lines 23-31, processKeys, updateModels *)

\* lines 23-25: the run is marked started and processKeys('author') is entered
Started(p) ==
  /\ run[p].pc = "started"
  /\ store' = [store EXCEPT !.started = StoreValue(DateString(now, FALSE)),
                            !.finished = Null]
  /\ run' = [run EXCEPT ![p].type = 1,
                        ![p].remainingKeys = run[p].unprocessedKeys[Types[1]],
                        ![p].unprocessedKeys[Types[1]] = <<>>,
                        ![p].watermark0 = 0, ![p].crawled = {},
                        ![p].delay = 0,
                        ![p].pc = "processKeys"]
  /\ UNCHANGED <<tables, editionsMax, inflight, now, env, entered>>

\* line 96 and 97: the loop test and the next batch; at the end of the
\* loop the call of processKeys for the next type, lines 26-27
ProcessKeys(p) ==
  /\ run[p].pc = "processKeys"
  /\ LET r == run[p] IN
       IF Len(r.remainingKeys) > 0
       THEN run' = [run EXCEPT ![p].batch = Batch(r.remainingKeys),
                               ![p].i = 1,
                               ![p].failedKeys = <<>>,
                               ![p].pc = "updateModels"]
       ELSE IF r.type < Len(Types)
       THEN run' = [run EXCEPT ![p].type = @ + 1,
                               ![p].remainingKeys = r.unprocessedKeys[Types[r.type + 1]],
                               ![p].unprocessedKeys[Types[r.type + 1]] = <<>>,
                               ![p].batch = <<>>,
                               ![p].failedKeys = <<>>,
                               ![p].delay = 0]
       ELSE run' = [run EXCEPT ![p].batch = <<>>, ![p].failedKeys = <<>>,
                               ![p].pc = "finish"]
  /\ UNCHANGED <<store, tables, editionsMax, inflight, now, env, entered>>

\* what the fetch of one record can come to: a record with the key; fetch
\* rejects (network) or is aborted by AbortSignal.timeout; a response that is
\* not ok; a body that is null or has no key; a record whose key has none of
\* the three prefixes
FetchOutcomes == {"ok", "network", "timeout", "status", "nokey", "unclassified"}

\* updateModel(key) throws: lines 142-156, and line 677 of saveModel
UpdateModelThrows(outcome) ==
  \/ outcome \in {"network", "timeout"}
  \/ outcome = "status"
  \/ outcome = "nokey"
  \/ outcome = "unclassified"

\* the loop of updateModels left after one key
NextKeyStop(r) ==
  [r EXCEPT !.i = @ + 1, !.fetched = TRUE, !.pause = FetchPause, !.pc = "saveBatchUpdate"]

\* the same with the sleep between the keys of a batch only
NextKeyPauseBetween(r) ==
  IF r.i < Len(r.batch) THEN [r EXCEPT !.i = @ + 1, !.fetched = TRUE, !.pause = FetchPause]
  ELSE [r EXCEPT !.i = @ + 1, !.fetched = TRUE, !.pause = 0, !.pc = "saveBatchUpdate"]

\* the run after updateModel(key) returned or threw and the sleep of line
\* 134: line 126
NextKey(r) ==
  IF r.i < Len(r.batch) THEN [r EXCEPT !.i = @ + 1, !.fetched = TRUE, !.pause = FetchPause]
  ELSE [r EXCEPT !.i = @ + 1, !.fetched = TRUE, !.pause = FetchPause,
                 !.pc = "saveBatchUpdate"]

\* updateModels, one key: updateModel fetches and saves the record, or throws
\* and the key is pushed on failedKeys
UpdateModels(p) ==
  /\ run[p].pc = "updateModels"
  /\ LET r == run[p]
         key == r.batch[r.i]
     IN \/ /\ \E outcome \in FetchOutcomes : ~UpdateModelThrows(outcome)
           /\ key \notin env.broken
           /\ tables' = SaveModel(tables, Upstream(key))
           /\ run' = [run EXCEPT ![p] = NextKey(r)]
           /\ UNCHANGED env
        \/ /\ \E outcome \in FetchOutcomes : UpdateModelThrows(outcome)
           /\ key \in env.broken \/ env.fetchFails < MaxFetchFails
           /\ env' = [env EXCEPT !.fetchFails = IF key \in env.broken THEN @ ELSE @ + 1]
           /\ run' = [run EXCEPT ![p] = NextKey([r EXCEPT !.failedKeys = Append(@, key)])]
           /\ UNCHANGED tables
  /\ UNCHANGED <<store, editionsMax, inflight, now, entered>>

\* the same with the queue of the authors written for every type
SaveBatchAuthors(p) ==
  /\ run[p].pc = "saveBatchUpdate"
  /\ LET r == run[p]
         t == Types[1]
         delay == NextDelay(r.delay, r.failedKeys, r.batch)
     IN /\ store' = [store EXCEPT !.q[t] = SaveBatchUpdate(@, Len(r.batch), r.failedKeys)]
        /\ run' = [run EXCEPT ![p].remainingKeys = Requeue(@, r.batch, r.failedKeys),
                              ![p].delay = delay,
                              ![p].pc = IF delay # 0 THEN "sleep" ELSE "processKeys"]
  /\ UNCHANGED <<tables, editionsMax, inflight, now, env, entered>>

\* lines 101-114: the persisted queue and remainingKeys after the batch
SaveBatch(p) ==
  /\ run[p].pc = "saveBatchUpdate"
  /\ LET r == run[p]
         t == Types[r.type]
         delay == NextDelay(r.delay, r.failedKeys, r.batch)
     IN /\ store' = [store EXCEPT !.q[t] = SaveBatchUpdate(@, Len(r.batch), r.failedKeys)]
        /\ run' = [run EXCEPT ![p].remainingKeys = Requeue(@, r.batch, r.failedKeys),
                              ![p].delay = delay,
                              ![p].pc = IF delay # 0 THEN "sleep" ELSE "processKeys"]
  /\ UNCHANGED <<tables, editionsMax, inflight, now, env, entered>>

\* lines 116-118
Sleep(p) ==
  /\ run[p].pc = "sleep"
  /\ run' = [run EXCEPT ![p].pause = @ + run[p].delay, ![p].pc = "processKeys"]
  /\ UNCHANGED <<store, tables, editionsMax, inflight, now, env, entered>>

\* lines 29-30, without the write of line 31
FinishKeepError(p) ==
  /\ run[p].pc = "finish"
  /\ store' = [store EXCEPT !.finished = StoreValue(DateString(now, FALSE))]
  /\ run' = [run EXCEPT ![p].pc = "finished"]
  /\ UNCHANGED <<tables, editionsMax, inflight, now, env, entered>>

\* lines 29-31
Finish(p) ==
  /\ run[p].pc = "finish"
  /\ store' = [store EXCEPT !.finished = StoreValue(DateString(now, FALSE)),
                            !.error = Null]
  /\ run' = [run EXCEPT ![p].pc = "finished"]
  /\ UNCHANGED <<tables, editionsMax, inflight, now, env, entered>>

\* the steps of an invocation outside the crawl of a day
StepSaved(p) ==
  \/ FetchKeys(p)
  \/ FetchKeysLoop(p)
  \/ SaveYesterday(p)
  \/ Started(p)
  \/ ProcessKeys(p)
  \/ UpdateModels(p)
  \/ SaveBatch(p)
  \/ Sleep(p)
  \/ Finish(p)

\* the steps of an invocation
Step(p) ==
  \/ StepSaved(p)
  \/ AddChangedKeys(p)
  \/ \E t \in TypeSet : SaveKeys(p, t)
  \/ SaveTime(p)

\* the steps of fetchKeys and the write that follows it
Crawl(p) ==
  \/ FetchKeys(p)
  \/ FetchKeysLoop(p)
  \/ AddChangedKeys(p)
  \/ \E t \in TypeSet : SaveKeys(p, t)
  \/ SaveTime(p)
  \/ SaveYesterday(p)

\* the steps of an invocation from line 23 on
Process(p) ==
  \/ Started(p)
  \/ ProcessKeys(p)
  \/ UpdateModels(p)
  \/ SaveBatch(p)
  \/ Sleep(p)
  \/ Finish(p)

\* an object without properties
EmptyObject == [f \in {} |-> 0]

\* what the authors of a work can be: none, an entry without author, an
\* entry of one of two authors
AuthorLists ==
  {<<>>, <<[type |-> "/type/author_role"]>>}
    \cup {<<[author |-> [key |-> Key("authors", i)]]>> : i \in 1..2}

\* what the works of an edition can be: none, an entry without key, one work
\* or two
WorkLists ==
  {<<>>, <<EmptyObject>>, <<[key |-> W(1)], [key |-> Key("works", 2)]>>}
    \cup {<<[key |-> Key("works", i)]>> : i \in 1..2}

\* the records upstream can return for a key: of the type of its kind or a
\* redirect, the later revision modified later
RecordsOf(key) ==
  LET bases == {Base(key, type, n, n) :
                  type \in {TypeOf(key), "/type/redirect"}, n \in 1..MaxRevision}
  IN IF key.ns = "works"
     THEN bases \cup {base @@ [authors |-> l] : base \in bases, l \in AuthorLists}
     ELSE IF key.ns = "books"
     THEN bases \cup {base @@ [works |-> l] : base \in bases, l \in WorkLists}
     ELSE bases

Records == UNION {RecordsOf(key) : key \in {A(1), W(1), B(1)} \cup OtherKeys}

\* saveModel is called with a record
SaveRecord ==
  /\ \E record \in Records : tables' = SaveModel(tables, record)
  /\ UNCHANGED <<store, editionsMax, inflight, now, run, env, entered>>

\* saveModel is called with a record and the database rejects the upsert
SaveRecordRejected ==
  /\ \E record \in Records : tables' = SaveModelRejected(tables, record)
  /\ UNCHANGED <<store, editionsMax, inflight, now, run, env, entered>>

\* upstream publishes the next revision of a record
Revise ==
  /\ \E key \in RevisedKeys :
       /\ env.revision[key] < MaxRevision
       /\ env' = [env EXCEPT !.revision[key] = @ + 1]
  /\ UNCHANGED <<store, tables, editionsMax, inflight, now, run, entered>>

\* the record upstream returns for a key at a revision
UpstreamAt(key, n) ==
  [Upstream(key) EXCEPT !.revision = n, !.last_modified.value = n]

\* updateModel up to its last await: the record is fetched and read, lines
\* 142-154
FetchModel(p) ==
  /\ run[p].pc = "updateModel"
  /\ \E key \in RevisedKeys :
       run' = [run EXCEPT ![p].data = <<UpstreamAt(key, env.revision[key])>>,
                          ![p].pc = "saveModel"]
  /\ UNCHANGED <<store, tables, editionsMax, inflight, now, env, entered>>

\* updateModel, line 156: the record that was fetched is saved
SaveFetched(p) ==
  /\ run[p].pc = "saveModel"
  /\ tables' = SaveModel(tables, run[p].data[1])
  /\ run' = [run EXCEPT ![p].data = <<>>, ![p].pc = "updateModel"]
  /\ UNCHANGED <<store, editionsMax, inflight, now, env, entered>>

\* the process is killed
Interrupt(p) ==
  /\ Live(p)
  /\ run' = [run EXCEPT ![p].pc = "killed"]
  /\ UNCHANGED <<store, tables, editionsMax, inflight, now, env, entered>>

\* the process is killed while it crawls or saves a day; of its memory the
\* history alone is kept
InterruptCrawl(p) ==
  /\ run[p].pc \in {"addChangedKeys", "save_author", "save_work", "save_edition", "save_time"}
  /\ run' = [run EXCEPT ![p] =
               [IdleRun EXCEPT !.path = run[p].path, !.wasEmpty = run[p].wasEmpty,
                               !.watermark0 = run[p].watermark0,
                               !.crawled = run[p].crawled,
                               !.checkpoint = run[p].checkpoint,
                               !.date = run[p].date,
                               !.pc = "killed"]]
  /\ UNCHANGED <<store, tables, editionsMax, inflight, now, env, entered>>

\* update() is triggered while no other invocation runs, the processes
\* taken in order
UpdateAlone(p) ==
  /\ \A q \in Procs : ~Live(q)
  /\ \A q \in 1..(p - 1) : run[q].pc # "idle"
  /\ Update(p)

----------------------------------------------------------------------------
(* Specifications *)

\* one invocation, not interrupted, from whatever earlier ones left
Next ==
  \/ Tick
  \/ Land
  \/ Update(1)
  \/ Step(1)

Spec == Init /\ [][Next]_vars

\* an invocation that finds saved keys and may be killed at any point, and
\* the invocation after it; the clock stays within the day, so that no day
\* is left to crawl
NextCrash ==
  \/ UpdateAlone(1)
  \/ StepSaved(1)
  \/ Interrupt(1)
  \/ UpdateAlone(2)
  \/ StepSaved(2)

SpecCrash == InitSaved /\ [][NextCrash]_vars

\* two invocations that overlap
NextOverlap ==
  \/ \E p \in Procs : Update(p)
  \/ \E p \in Procs : StepSaved(p)

SpecOverlap == InitSaved /\ [][NextOverlap]_vars

\* the discovery pass of one invocation, over a feed with many full pages
NextFeed ==
  \/ Update(1)
  \/ Crawl(1)

SpecFeed == InitFeed /\ [][NextFeed]_vars

\* a discovery pass that may be killed within a day, and the discovery pass
\* of the invocation after it
NextCrawlCrash ==
  \/ UpdateAlone(1)
  \/ Crawl(1)
  \/ InterruptCrawl(1)
  \/ UpdateAlone(2)
  \/ Crawl(2)

SpecCrawlCrash == InitBehind /\ [][NextCrawlCrash]_vars

\* one invocation that finds saved keys and is not interrupted; an await
\* whose promise settles is resumed, and every fetch and query settles
NextDrain ==
  \/ Update(1)
  \/ Process(1)

SpecDrain == InitSaved /\ [][NextDrain]_vars /\ WF_vars(NextDrain)

\* the same when the record of a saved key may be one that cannot be fetched
NextBroken ==
  \/ Update(1)
  \/ Process(1)

SpecBroken == InitBroken /\ [][NextBroken]_vars /\ WF_vars(NextBroken)

\* two invocations in updateModel, of the same keys or of others, while
\* upstream revises the records
NextRace ==
  \/ Revise
  \/ \E p \in Procs : FetchModel(p)
  \/ \E p \in Procs : SaveFetched(p)

SpecRace == InitRace /\ [][NextRace]_vars

\* server.requestIP(req)?.address ?? '': loopback of either family, the
\* IPv4 loopback as a dual-stack socket reports it, another host, no address
Addresses == {"127.0.0.1", "::1", "::ffff:127.0.0.1", "192.168.1.7", ""}

\* the internal routes: lines 91-106
Paths == {"/tasks/cache", "/tasks/update"}

\* every address counted as internal
AnyAddress == Addresses

\* line 101: ['127.0.0.1', '::1']
InternalAddresses == {"127.0.0.1", "::1"}

\* some invocation spawned earlier has not come to its end
RunActive == \E p \in Procs : run[p].pc \notin Terminal \cup {"unspawned"}

\* update() of the server, lines 138-142: Bun.spawn of src/tasks/update.ts,
\* whose import.meta.main calls update()
Spawn(runs, p) == [runs EXCEPT ![p].pc = "idle"]

\* a GET of an internal route: lines 91-106
Request ==
  /\ env.requests < MaxRequests
  /\ \E path \in Paths, address \in Addresses :
       /\ env' = [env EXCEPT !.requests = @ + 1, !.trigger = "route", !.busy = RunActive,
                             !.path = path, !.peer = address]
       /\ IF path = "/tasks/update" /\ address \in InternalAddresses
          THEN \E p \in Procs : run[p].pc = "unspawned" /\ run' = Spawn(run, p)
          ELSE run' = run
  /\ UNCHANGED <<store, tables, editionsMax, inflight, now, entered>>

\* the cron job fires: line 119
Cron ==
  /\ env.requests < MaxRequests
  /\ env' = [env EXCEPT !.requests = @ + 1, !.trigger = "cron", !.busy = RunActive,
                        !.path = "", !.peer = ""]
  /\ \E p \in Procs : run[p].pc = "unspawned" /\ run' = Spawn(run, p)
  /\ UNCHANGED <<store, tables, editionsMax, inflight, now, entered>>

\* the server with its two triggers, and the invocations it has spawned
NextServer ==
  \/ Request
  \/ Cron
  \/ \E p \in Procs : Update(p)
  \/ \E p \in Procs : StepSaved(p)

SpecServer == InitServer /\ [][NextServer]_vars

\* the values setStore is called with: null or a date string
StoreValues == {Null} \cup {Val(t) : t \in {Earlier, Earlier + 1}}

\* setStore(key, value, cache): lines 295-311
SetStore(p) ==
  /\ run[p].pc = "store"
  /\ \E key \in StoreKeys, value \in StoreValues, cache \in BOOLEAN :
       /\ store' = [store EXCEPT ![key] = Parsed(StringifyOrNull(value))]
       /\ run' = [run EXCEPT ![p].cache = SetStoreCache(@, key, value, cache),
                             ![p].written[key] = value,
                             ![p].got = NoRead]
  /\ UNCHANGED <<tables, editionsMax, inflight, now, env, entered>>

\* getStore(key, cache): lines 278-292
GetStore(p) ==
  /\ run[p].pc = "store"
  /\ \E key \in StoreKeys, cache \in BOOLEAN :
       run' = [run EXCEPT ![p].cache = GetStoreCache(store, @, key, cache),
                          ![p].got = [key |-> key,
                                      value |-> GetStoreValue(store, run[p].cache, key)]]
  /\ UNCHANGED <<store, tables, editionsMax, inflight, now, env, entered>>

\* one process using the key/value store
NextStore ==
  \/ SetStore(1)
  \/ GetStore(1)

SpecStore == InitStore /\ [][NextStore]_vars

\* saveModel applied to any sequence of records
NextSave ==
  \/ SaveRecord
  \/ SaveRecordRejected

SpecSave == InitSave /\ [][NextSave]_vars

----------------------------------------------------------------------------
(* Properties *)

Persisted(t) == PersistedKeys(store.q[t])

\* the part of a discovery pass in which a day is crawled and saved
CrawlPcs == {"addChangedKeys", "save_author", "save_work", "save_edition", "save_time"}

\* the part of an invocation from getUpdateTime to line 23, and its failure
PassPcs == CrawlPcs \cup {"loop", "yesterday", "started", "failed"}

InPass(p) == run[p].path = "discovery" /\ run[p].pc \in PassPcs

\* C1: in one run that is neither killed nor overlapped, every key that
\* entered a queue is, in every state, a row of the record store or still
\* in the persisted queue of its type.
C1_NoKeyLost ==
  \A k \in entered : k \in records \/ k \in Persisted(Classify(k))

\* a batch of two authors in which the first failed and the second was saved
\* has been taken off the queue found by this run's discovery
C1_Witness ==
  /\ run[1].path = "discovery"
  /\ run[1].pc = "processKeys"
  /\ store.q["author"] = Val(<<A(3), A(1)>>)
  /\ A(1) \notin records
  /\ A(2) \in records

\* C2: while a discovery pass runs and when it has ended, every day after
\* the watermark the pass started from, up to the stored watermark, was
\* crawled for all five kinds by the pass.
C2_WatermarkOnlyPastCrawledDays ==
  \A p \in Procs :
    (InPass(p) /\ store.keysTime.st = "val") =>
      \A d \in (Day(run[p].watermark0) + 1)..Day(store.keysTime.v) : d \in run[p].crawled

\* C3: the stored watermark of a discovery pass is never earlier than the
\* watermark the pass started from (the stored one, or the one of the
\* getUpdateTime fallback), and differs from it by whole days.
C3_WatermarkMonotonic ==
  \A p \in Procs :
    (InPass(p) /\ store.keysTime.st = "val") =>
      /\ store.keysTime.v >= run[p].watermark0
      /\ (store.keysTime.v - run[p].watermark0) % TicksPerDay = 0

\* C4: a discovery pass leaves the crawl of a day on which every page had
\* zero entries only by the write of the watermark, which stores that day,
\* and goes on with the next day.
C4_EmptyDayAdvances ==
  [][\A p \in Procs :
       (run[p].pc \in CrawlPcs /\ run[p].dayEmpty /\ run'[p].pc \notin CrawlPcs \cup {"failed"}) =>
         /\ run[p].pc = "save_time"
         /\ run'[p].pc = "loop"
         /\ store'.keysTime = Val(run[p].date)
         /\ run'[p].date = run[p].date + TicksPerDay]_vars

\* the day after the watermark was crawled, had no entry, and is the stored
\* watermark when the pass looks at the next day
C4_Witness ==
  /\ run[1].pc = "loop"
  /\ run[1].dayEmpty
  /\ run[1].crawled # {}
  /\ store.keysTime = Val(run[1].date - TicksPerDay)
  /\ \A t \in TypeSet : store.q[t] = Val(<<>>)

\* q without its first n elements, element by element
DropFirst(q, n) == [i \in 1..(Len(q) - n) |-> q[i + n]]

\* C5: every saveBatchUpdate(type, size, failedKeys) leaves, in one step, the
\* persisted queue of the type reading as what it read before without its
\* first min(size, length) keys, followed by failedKeys; the other queues
\* are as before.
C5_SaveBatchUpdate ==
  [][\A p \in Procs :
       (run[p].pc = "saveBatchUpdate" /\ run'[p].pc # "saveBatchUpdate") =>
         LET t == Types[run[p].type]
             q == ReadKeys(store.q[t])
             size == Len(run[p].batch)
         IN /\ ReadKeys(store'.q[t]) =
                 DropFirst(q, IF size < Len(q) THEN size ELSE Len(q)) \o run[p].failedKeys
            /\ \A u \in TypeSet \ {t} : store'.q[u] = store.q[u]]_vars

\* the author queue was shortened by another invocation to less than the
\* batch, and the batch has left it empty
C5_Witness ==
  /\ store.q["author"] = Null
  /\ \E p \in Procs : run[p].pc = "processKeys" /\ run[p].type = 1 /\ Len(run[p].remainingKeys) > 0

\* C6: when an invocation is killed while it processes keys and update()
\* is invoked again, every key that entered a queue and has no record yet is
\* in the persisted queue of its type, and the new invocation starts from
\* the queues as they are persisted.
C6_ResumeKeepsBacklog ==
  /\ \A k \in entered \ records : k \in Persisted(Classify(k))
  /\ (run[1].pc = "killed" /\ run[2].pc = "started") =>
       \A t \in TypeSet : run[2].unprocessedKeys[t] = ReadKeys(store.q[t])

\* the first invocation was killed within a batch in which a fetch had
\* failed, and the second has read keys to process
C6_Witness ==
  /\ run[1].pc = "killed"
  /\ run[1].failedKeys # <<>>
  /\ run[1].i <= Len(run[1].batch)
  /\ run[2].pc = "started"
  /\ run[2].path = "resume"

\* the keys an invocation holds in memory and has still to fetch
InMemory(p) ==
  Range(run[p].remainingKeys) \cup UNION {Range(run[p].unprocessedKeys[t]) : t \in TypeSet}

\* C7, as claimed: with overlapping invocations a key leaves the persisted
\* queue only in a step after which it has a record.
C7_RemovedOnlyWhenFetched ==
  [][\A k \in Keys :
       (k \in Persisted(Classify(k)) /\ k \notin Persisted(Classify(k))') => k \in records']_vars

\* C7, amended: with overlapping invocations a key that entered a queue and
\* has no record yet is in the persisted queue of its type or in the
\* in-memory list of an invocation that is still running.
C7_HeldSomewhere ==
  \A k \in entered \ records :
    k \in Persisted(Classify(k)) \/ \E p \in Procs : Live(p) /\ k \in InMemory(p)

\* a key without a record has left the persisted queue and is held in memory
C7_Witness ==
  \E k \in entered \ records :
    /\ k \notin Persisted(Classify(k))
    /\ \E p \in Procs : Live(p) /\ k \in InMemory(p)

\* C8: an invocation enters discovery exactly if no persisted queue held a
\* key when it was triggered; otherwise it requests no feed page, writes no
\* watermark, and processes the queues as persisted.
C8_DiscoveryIffQueuesEmpty ==
  \A p \in Procs :
    run[p].path # "none" =>
      /\ run[p].path = "discovery" <=> run[p].wasEmpty
      /\ run[p].path = "resume" =>
           /\ ~run[p].requested
           /\ ~run[p].wroteWatermark
           /\ run[p].pc \notin CrawlPcs \cup {"fetchKeys", "loop", "yesterday"}
           /\ run[p].pc = "started" =>
                \A t \in TypeSet : run[p].unprocessedKeys[t] = ReadKeys(store.q[t])

\* an invocation that found saved keys fetches a record
C8_Witness ==
  /\ run[1].path = "resume"
  /\ run[1].pc = "updateModels"
  /\ ~run[1].wasEmpty

\* C9: in one invocation a work is fetched only when the persisted author
\* queue holds no key, and an edition only when the author and the work
\* queue hold none.
C9_AuthorsWorksEditions ==
  \A p \in Procs :
    run[p].pc = "updateModels" =>
      LET key == run[p].batch[run[p].i] IN
        /\ Classify(key) = "work" => Persisted("author") = {}
        /\ Classify(key) = "edition" => Persisted("author") = {} /\ Persisted("work") = {}

\* a work is fetched by an invocation in which the fetch of an author failed
C9_Witness ==
  /\ run[1].pc = "updateModels"
  /\ Classify(run[1].batch[run[1].i]) = "work"
  /\ env.fetchFails > 0
  /\ AuthorKeys \subseteq records

Max(S) == CHOOSE x \in S : \A y \in S : y <= x

\* the last day a pass completed, or the watermark it started from
LastCompleted(p) ==
  IF run[p].crawled = {} THEN run[p].watermark0 ELSE Max(run[p].crawled) * TicksPerDay

\* C10, as claimed: when a discovery pass has failed, update_keys_error
\* holds the url and the status of the failed request, update_error is set,
\* the stored watermark is the last completed day, the persisted queues hold
\* the keys accumulated through that day, and no record was fetched.
C10_FailedDiscovery ==
  \A p \in Procs :
    run[p].pc = "failed" =>
      /\ store.keysError.st = "val"
      /\ store.keysError.v.url = run[p].failedUrl
      /\ store.keysError.v.status = Status(run[p].failure)
      /\ store.error.st = "val"
      /\ store.keysTime.st = "val" => store.keysTime.v = LastCompleted(p)
      /\ \A t \in TypeSet :
           IF run[p].crawled = {} THEN Persisted(t) = {}
           ELSE store.q[t] = Val(run[p].checkpoint[t])
      /\ ~run[p].fetched

\* C11: when an invocation has reached the end of update(), no persisted
\* queue holds a key, update_finished holds a time not before update_started
\* and not after the clock, and update_error is null.
C11_FinishedMeansDrained ==
  \A p \in Procs :
    run[p].pc = "finished" =>
      /\ \A t \in TypeSet : Persisted(t) = {}
      /\ store.finished.st = "val"
      /\ store.started.st = "val"
      /\ store.started.v <= store.finished.v
      /\ store.finished.v <= now
      /\ store.error = Null

\* an invocation finished in which fetches had failed, after one that had
\* left an error
C11_Witness ==
  /\ run[1].pc = "finished"
  /\ run[1].path = "resume"
  /\ env.fetchFails = MaxFetchFails
  /\ store.keysError.st = "val"

\* the keys of a type that entered its queue
EnteredOf(t) == {k \in entered : Classify(k) = t}

\* processKeys of the type with index n has returned
Returned(p, n) ==
  \/ run[p].pc \in {"finish", "finished"}
  \/ run[p].pc \in {"processKeys", "updateModels", "saveBatchUpdate", "sleep"} /\ run[p].type > n

\* C12: fetches failing only finitely often, processKeys of each type
\* returns, with the persisted queue of the type empty and a record for every
\* key of the queue; after each batch the failed keys stand in remainingKeys
\* behind the keys that were behind the batch.
C12_ProcessKeysDrains ==
  /\ \A n \in 1..Len(Types) :
       (run[1].pc = "processKeys" /\ run[1].type = n)
         ~> (Returned(1, n) /\ Persisted(Types[n]) = {} /\ EnteredOf(Types[n]) \subseteq records)
  /\ [][(run[1].pc = "saveBatchUpdate" /\ run'[1].pc # "saveBatchUpdate") =>
          run'[1].remainingKeys =
            DropFirst(run[1].remainingKeys, Len(run[1].batch)) \o run[1].failedKeys]_vars

\* the author whose fetch failed in the first batch is fetched again in the
\* second, after the author that was behind the first batch
C12_Witness ==
  /\ run[1].pc = "updateModels"
  /\ run[1].batch = <<A(3), A(1)>>
  /\ run[1].i = 2
  /\ A(3) \in records
  /\ A(1) \notin records

\* C13: the step that ends a batch of which more than half of the keys
\* failed leads to the sleep of Cooldown milliseconds, which is followed by
\* the next batch; the first batch of a queue leads to no sleep when at most
\* half of its keys failed.
C13_CooldownAfterFailures ==
  [][\A p \in Procs :
       /\ (run[p].pc = "saveBatchUpdate" /\ run'[p].pc # "saveBatchUpdate") =>
            /\ 2 * Len(run[p].failedKeys) > Len(run[p].batch) =>
                 /\ run'[p].pc = "sleep"
                 /\ run'[p].delay = Cooldown
                 /\ Len(run'[p].remainingKeys) > 0
            /\ (run[p].delay = 0 /\ 2 * Len(run[p].failedKeys) <= Len(run[p].batch)) =>
                 run'[p].pc = "processKeys"
       /\ (run[p].pc = "sleep" /\ run'[p].pc # "sleep") =>
            run'[p].pc = "processKeys" /\ run'[p].remainingKeys = run[p].remainingKeys
       /\ (run[p].pc # "updateModels" /\ run'[p].pc = "updateModels") =>
            run[p].pc = "processKeys"]_vars

\* the sleep after a batch of one key that failed
C13_Witness ==
  \E p \in Procs :
    /\ run[p].pc = "sleep"
    /\ Len(run[p].batch) = 1
    /\ run[p].failedKeys = run[p].batch
    /\ run[p].delay = Cooldown

\* a step of p in which a page of the feed was read
ReadsPage(p) ==
  /\ run[p].pc = "addChangedKeys"
  /\ run'[p].pc # "failed"
  /\ run'[p].feedFails = run[p].feedFails
  /\ run'[p] # run[p]

\* a step of p in which a page of Limit entries was read
ReadsFullPage(p) == ReadsPage(p) /\ run'[p].fullPages = run[p].fullPages + 1

\* after the step p is about to request the next page of the same day and kind
RequestsNextPage(p) ==
  /\ run'[p].pc = "addChangedKeys"
  /\ run'[p].kind = run[p].kind
  /\ run'[p].date = run[p].date
  /\ run'[p].offset = run[p].offset + Limit

\* after the step p has left the day and kind
LeavesKind(p) ==
  /\ run'[p].offset = 0
  /\ \/ run'[p].pc = "addChangedKeys" /\ run'[p].kind = run[p].kind + 1
     \/ run'[p].pc = "save_author" /\ run[p].kind = Len(kinds)

\* C14: after a page of a day and kind was read, the next page, at the offset
\* advanced by Limit, is requested exactly if the page held Limit entries and
\* the advanced offset passes the test of the loop; otherwise the crawl of
\* the day and kind ends with that page.
C14_NextPageIffFull ==
  [][\A p \in Procs :
       ReadsPage(p) =>
         /\ RequestsNextPage(p) <=>
              (ReadsFullPage(p) /\ run[p].offset + Limit <= OffsetCap)
         /\ ~RequestsNextPage(p) => LeavesKind(p)]_vars

\* the first kind of the day took two requests: a full page, then one that
\* was not full
C14_Witness ==
  /\ run[1].pc = "addChangedKeys"
  /\ run[1].kind = 2
  /\ run[1].offset = 0
  /\ run[1].fullPages = 1
  /\ run[1].feedFails = 0

\* the pages of Limit entries that fill the claimed cap of 10000 entries
PagesInCap == OffsetCap \div Limit

\* C15, as claimed: a full page that is read for a day and kind is at most
\* the 10th of them.
C15_AtMostTenPages ==
  [][\A p \in Procs :
       ReadsFullPage(p) => (run[p].offset \div Limit) + 1 <= PagesInCap]_vars

\* C15, amended: a page is requested at an offset of at most 10000, and a
\* full page that is read for a day and kind is at most the 11th of them,
\* after which the crawl of the day and kind ends.
C15_AtMostElevenPages ==
  [][\A p \in Procs :
       /\ run[p].pc = "addChangedKeys" => run[p].offset <= OffsetCap
       /\ ReadsFullPage(p) =>
            /\ (run[p].offset \div Limit) + 1 <= PagesInCap + 1
            /\ (run[p].offset \div Limit) + 1 = PagesInCap + 1 => LeavesKind(p)]_vars

\* the first kind of the day was left after 11 full pages and nothing else
C15_Witness ==
  /\ run[1].pc = "addChangedKeys"
  /\ run[1].kind = 2
  /\ run[1].offset = 0
  /\ run[1].fullPages = PagesInCap + 1
  /\ run[1].feedFails = 0
  /\ run[1].dayEmpty = FALSE

\* C16: a step of updateModels, whatever the fetch of the key came to,
\* leaves the batch as it is, moves on to the next key of the batch if there
\* is one and to saveBatchUpdate otherwise, never ends the invocation,
\* changes no store entry, and adds at most the key itself to failedKeys; the
\* failed keys are keys of the batch already passed, each once.
C16_KeyFailureIsLocal ==
  [][\A p \in Procs :
       /\ run[p].pc \in {"updateModels", "saveBatchUpdate"} =>
            /\ Range(run[p].failedKeys) \subseteq {run[p].batch[j] : j \in 1..(run[p].i - 1)}
            /\ Cardinality(Range(run[p].failedKeys)) = Len(run[p].failedKeys)
       /\ (run[p].pc = "updateModels" /\ run'[p] # run[p]) =>
            /\ run'[p].pc = IF run[p].i < Len(run[p].batch) THEN "updateModels"
                            ELSE "saveBatchUpdate"
            /\ run'[p].batch = run[p].batch
            /\ run'[p].i = run[p].i + 1
            /\ \/ run'[p].failedKeys = run[p].failedKeys /\ run[p].batch[run[p].i] \in records'
               \/ run'[p].failedKeys = Append(run[p].failedKeys, run[p].batch[run[p].i])
                    /\ records' = records
            /\ store' = store]_vars

\* the second key of a batch is fetched after the fetch of the first failed
C16_Witness ==
  \E p \in Procs :
    /\ run[p].pc = "updateModels"
    /\ run[p].i = 2
    /\ run[p].failedKeys = <<run[p].batch[1]>>
    /\ store.error = Null

\* C17, as claimed: while an invocation is between its trigger and its end,
\* the discovery pass included, update_finished holds no time.
C17_FinishedNullWhileRunning ==
  \A p \in Procs : Live(p) => store.finished.st # "val"

\* C18, as claimed: when an invocation has failed, update_error holds the
\* error and update_finished holds no time.
C18_FailedLeavesFinishedUnset ==
  \A p \in Procs :
    run[p].pc = "failed" => (store.error.st = "val" /\ store.finished.st # "val")

\* the part of an invocation after line 15, its failure excluded
AfterEntry(p) == (Live(p) /\ run[p].pc # "fetchKeys") \/ run[p].pc = "finished"

\* C19, as claimed: once an invocation has entered discovery,
\* update_keys_start_time is set and update_error is null, for as long as
\* the invocation has not failed.
C19_ErrorClearedOnEntry ==
  \A p \in Procs :
    (run[p].path = "discovery" /\ AfterEntry(p)) =>
      (store.keysStart.st = "val" /\ store.error.st # "val")

\* the pass of p is within a day: it crawls it or saves its checkpoint
WithinDay(p) == run[p].pc \in CrawlPcs

\* C20: in a discovery pass, also one that was killed or has failed, the
\* keys accumulated up to the last watermark the pass wrote are in the
\* persisted queues, and while the pass is within a day, or was killed
\* within it, the stored watermark is before that day; the discovery pass of
\* the next invocation crawls the day again.
C20_CheckpointBeforeWatermark ==
  /\ \A p \in Procs :
       run[p].path = "discovery" =>
         /\ \A t \in TypeSet : Range(run[p].checkpoint[t]) \subseteq Persisted(t)
         /\ WithinDay(p) => Day(store.keysTime.v) < Day(run[p].date)
  /\ (run[1].pc = "killed" /\ run[2].path # "discovery") =>
       Day(store.keysTime.v) < Day(run[1].date)
  /\ (run[1].pc = "killed" /\ run[2].path = "discovery" /\ run[2].pc \in {"yesterday", "started"}) =>
       Day(run[1].date) \in run[2].crawled

\* the first pass was killed in its second day, having found no key, and
\* the pass after it has crawled that day again and saved keys
C20_Witness ==
  /\ run[1].pc = "killed"
  /\ run[1].crawled # {}
  /\ run[2].path = "discovery"
  /\ run[2].pc = "yesterday"
  /\ Day(run[1].date) \in run[2].crawled
  /\ Persisted("author") # {}

\* the invocation p requests the record of the key it is at: line 142
FetchesRecord(p) == run[p].pc = "updateModels" /\ run'[p].i = run[p].i + 1

\* the keys of its current batch whose records the invocation p has fetched
\* and upserted
UpsertedOfBatch(p) ==
  {run[p].batch[j] : j \in 1..(run[p].i - 1)} \ Range(run[p].failedKeys)

\* C21: after an invocation was killed, the invocation that resumes the
\* saved keys never requests the record of a key that the killed one had
\* fetched and upserted.
C21_NoRefetchAfterInterrupt ==
  [][(run[1].pc = "killed" /\ FetchesRecord(2))
       => run[2].batch[run[2].i] \notin UpsertedOfBatch(1)]_vars

\* the invocation p issues a feed request: line 185
IssuesFeedRequest(p) == run[p].pc = "addChangedKeys" /\ run'[p] # run[p]

\* the invocation p issues a write of update_keys_time: lines 79 and 20
WritesWatermark(p) == run[p].pc \in {"save_time", "yesterday"} /\ run'[p] # run[p]

\* C22: when the engine issues a feed request or a write of the watermark,
\* no earlier write of the watermark is still on its way to the database.
C22_NoWriteInFlight ==
  [][\A p \in Procs :
       (IssuesFeedRequest(p) \/ WritesWatermark(p)) => inflight.st # "val"]_vars

\* the rows of a key in the table of its kind
RowsOf(db, key) == {r \in db[Table(key)] : r.key = key}

\* C23: saveModel is an upsert by key.  From any tables, saving a record
\* twice gives the tables that saving it once gives; saving a record of a
\* revision above that of the row of its key leaves, for the key, the row
\* that saving the record alone gives; and no table holds two rows of one key.
C23_IdempotentUpsert ==
  /\ \A record \in Records :
       LET once == SaveModel(tables, record)
       IN /\ SaveModel(once, record) = once
          /\ (/\ ~SaveModelThrows(record)
              /\ \E r \in RowsOf(tables, record.key) : r.revision < record.revision)
               => RowsOf(once, record.key) = RowsOf(SaveModel(EmptyTables, record), record.key)
  /\ \A t \in {"authors", "works", "editions"} :
       \A r1, r2 \in tables[t] : r1.key = r2.key => r1 = r2

\* a work was saved for two authors and its row is of the later revision
C23_Witness ==
  /\ BagCardinality(tables.author_works) = 2
  /\ \E r \in tables.works : r.key = W(1) /\ r.revision = MaxRevision

\* C24: every row of editions has a work_key that is not null and is the
\* key of the first work of the record in its data column.
C24_EditionHasWorkKey ==
  \A r \in tables.editions :
    /\ r.work_key # Null
    /\ r.work_key = FirstWorkKey(r.data.json)

\* the place of a type in the order of line 25 to 27
TypeIndex(t) == CHOOSE n \in 1..Len(Types) : Types[n] = t

\* the last Len(tail) elements of q are tail
EndsWith(q, tail) ==
  /\ Len(tail) <= Len(q)
  /\ SubSeq(q, Len(q) - Len(tail) + 1, Len(q)) = tail

\* C25: when the record of a saved key can never be fetched, processKeys of
\* its type never returns (the run neither finishes nor fails nor reaches the
\* next type), the key is requested again and again, and each batch that
\* holds it puts it back at the tail of remainingKeys and of the persisted
\* queue among the failed keys of the batch.
C25_BrokenKeyNeverDone ==
  /\ [](\A k \in env.broken :
          ~Returned(1, TypeIndex(Classify(k))) /\ run[1].pc # "failed")
  /\ []<>(\/ env.broken = {}
          \/ run[1].pc = "updateModels" /\ run[1].batch[run[1].i] \in env.broken)
  /\ [][\A k \in env.broken :
          (/\ run[1].pc = "saveBatchUpdate"
           /\ run'[1].pc # "saveBatchUpdate"
           /\ k \in Range(run[1].batch))
            => /\ k \in Range(run[1].failedKeys)
               /\ EndsWith(run'[1].remainingKeys, run[1].failedKeys)
               /\ EndsWith(store'.q[Classify(k)].v, run[1].failedKeys)]_vars

\* the key is all that is left of its queue, after a batch in which it failed
C25_Witness ==
  /\ run[1].pc = "sleep"
  /\ run[1].delay = Cooldown
  /\ \E k \in env.broken :
       /\ run[1].remainingKeys = <<k>>
       /\ run[1].failedKeys = <<k>>
       /\ store.q[Classify(k)] = Val(<<k>>)

\* C26: a feed page is requested with at most Retries failures before it.
\* A request that fails after fewer than Retries consecutive failures is
\* followed by the 5 s sleep and a request of the same day, kind and offset;
\* one that fails after Retries consecutive failures ends discovery; and a
\* request that succeeds sets the count of failures back to 0.
C26_RetryBound ==
  [][\A p \in Procs :
       IssuesFeedRequest(p) =>
         LET r == run[p]
             r2 == run'[p]
         IN /\ r.retries <= Retries
            /\ r2.pc = "failed" => r.retries = Retries
            /\ (r2.pc # "failed" /\ r2.retries # 0) =>
                 /\ r.retries < Retries
                 /\ r2.retries = r.retries + 1
                 /\ r2.pc = "addChangedKeys"
                 /\ Url(r2) = Url(r)
                 /\ r2.pause = RetryPause]_vars

\* C27: a feed request that follows a successful feed request of the same
\* discovery pass is issued after a sleep of at least 1 s.
C27_PauseAfterEachPage ==
  [][\A p \in Procs :
       (IssuesFeedRequest(p) /\ run[p].requested /\ run[p].retries = 0)
         => run[p].pause >= FeedPause]_vars

\* C28: a record fetch of a run that is not its first is issued after the
\* 200 ms sleep that follows the fetch before it, whether that fetch failed
\* or not and whether it was of the same batch or not; a step of the run
\* fetches one record, the next of its batch.
C28_FetchesPaced ==
  [][\A p \in Procs :
       FetchesRecord(p) =>
         /\ run[p].fetched => run[p].pause >= FetchPause
         /\ run'[p].batch = run[p].batch
         /\ \/ run'[p].failedKeys = run[p].failedKeys
            \/ run'[p].failedKeys = Append(run[p].failedKeys, run[p].batch[run[p].i])]_vars

\* the first key of a batch that is not the first batch is to be fetched,
\* the last key of the batch before it having failed
C28_Witness ==
  /\ run[1].pc = "updateModels"
  /\ run[1].i = 1
  /\ run[1].fetched
  /\ run[1].delay = 0
  /\ run[1].pause = FetchPause
  /\ run[1].batch[Len(run[1].batch)] \notin records

\* the invocation p takes a step of processKeys, updateModels or
\* saveBatchUpdate
StepsInProcessKeys(p) ==
  /\ run[p].pc \in {"processKeys", "updateModels", "saveBatchUpdate", "sleep"}
  /\ run'[p] # run[p]

\* C29: a step of processKeys, and of the updateModels and saveBatchUpdate it
\* calls, leaves every row of the store as it was but the persisted queue of
\* the type it processes: the watermark, the start of discovery, the run
\* status and the queues of the other two types.
C29_ProcessKeysFrame ==
  [][\A p \in Procs :
       StepsInProcessKeys(p) =>
         /\ store'.keysTime = store.keysTime
         /\ store'.keysStart = store.keysStart
         /\ store'.keysError = store.keysError
         /\ store'.started = store.started
         /\ store'.finished = store.finished
         /\ store'.error = store.error
         /\ \A t \in TypeSet \ {Types[run[p].type]} : store'.q[t] = store.q[t]]_vars

\* a batch of works was saved while keys of editions are queued
C29_Witness ==
  /\ run[1].pc \in {"processKeys", "sleep"}
  /\ Types[run[1].type] = "work"
  /\ run[1].batch # <<>>
  /\ store.q["work"] # FullQueues["work"]
  /\ Persisted("edition") # {}
  /\ store.keysTime.st = "val"

\* the key has the prefix of the type: /authors/, /works/ or /books/
HasPrefixOf(k, t) ==
  \/ k.ns = "authors" /\ t = "author"
  \/ k.ns = "works" /\ t = "work"
  \/ k.ns = "books" /\ t = "edition"

\* C30: the forEach of a page adds a key of the feed to the set of its
\* prefix and to no other, and a key of another prefix to none; the sets of
\* a discovery pass and the persisted queues hold keys of their own type
\* only.
C30_KeysByPrefix ==
  /\ \A p \in Procs : \A k \in AllKeys :
       LET sets == AddKeys(run[p].sets, <<k>>)
       IN \A t \in TypeSet :
            Range(sets[t]) =
              Range(run[p].sets[t]) \cup (IF HasPrefixOf(k, t) THEN {k} ELSE {})
  /\ \A p \in Procs : \A t \in TypeSet :
       \A k \in Range(run[p].sets[t]) : HasPrefixOf(k, t)
  /\ \A t \in TypeSet : \A k \in Persisted(t) : HasPrefixOf(k, t)

\* a discovery pass found an author and a work and saves its sets
C30_Witness ==
  /\ run[1].pc = "save_edition"
  /\ run[1].path = "discovery"
  /\ run[1].sets["author"] # <<>>
  /\ run[1].sets["work"] # <<>>
  /\ Persisted("author") # {}
  /\ Persisted("work") # {}

\* C31: from any tables, saveModel of a work record whose first author has
\* a key leaves one row of author_works for the pair, saved once or twice,
\* and the other rows of author_works as they were; saveModel of any other
\* record leaves author_works as it was; and no pair has two rows.
C31_OneAuthorWorkRow ==
  /\ \A pair \in BagToSet(tables.author_works) : CopiesIn(pair, tables.author_works) = 1
  /\ \A record \in Records :
       LET once == SaveModel(tables, record).author_works
           twice == SaveModel(SaveModel(tables, record), record).author_works
       IN IF Table(record.key) = "works" /\ HasFirstAuthor(record)
          THEN /\ CopiesIn(AuthorWork(record), once) = 1
               /\ twice = once
               /\ \A pair \in BagToSet(tables.author_works) \cup BagToSet(once) :
                    pair # AuthorWork(record)
                      => CopiesIn(pair, once) = CopiesIn(pair, tables.author_works)
          ELSE once = tables.author_works

\* a work with a first author was saved, and an author and an edition
C31_Witness ==
  /\ BagCardinality(tables.author_works) = 1
  /\ tables.authors # {}
  /\ tables.editions # {}
  /\ \E r \in tables.works : HasFirstAuthor(r.data.json)

\* C32: the cooldown is slept after a batch only if more than half of the
\* keys of that batch failed.
C32_CooldownOnlyAfterBadBatch ==
  [][\A p \in Procs :
       (run[p].pc = "saveBatchUpdate" /\ run'[p].pc = "sleep")
         => 2 * Len(run[p].failedKeys) > Len(run[p].batch)]_vars

\* C33: in a run that no other overlaps, while processKeys of a type runs,
\* and so after each of its batches, remainingKeys is the list of keys of
\* the persisted queue of the type, in the same order.
C33_RemainingKeysIsQueue ==
  \A p \in Procs :
    run[p].pc \in {"processKeys", "updateModels", "saveBatchUpdate", "sleep"}
      => run[p].remainingKeys = ReadKeys(store.q[Types[run[p].type]])

\* a batch with a key that failed and one that did not was saved, the keys
\* having come from discovery
C33_Witness ==
  /\ run[1].pc \in {"processKeys", "sleep"}
  /\ run[1].path = "discovery"
  /\ run[1].failedKeys # <<>>
  /\ Len(run[1].failedKeys) < Len(run[1].batch)
  /\ Len(run[1].remainingKeys) > Len(run[1].failedKeys)

\* no element stands twice in the sequence
NoDuplicates(q) == \A i, j \in 1..Len(q) : q[i] = q[j] => i = j

\* C34: in a run that no other overlaps, no persisted queue holds a key
\* twice, and neither do the sets of a discovery pass.
C34_QueuesDuplicateFree ==
  /\ \A t \in TypeSet : NoDuplicates(ReadKeys(store.q[t]))
  /\ \A p \in Procs : \A t \in TypeSet : NoDuplicates(run[p].sets[t])

\* keys that discovery saved were requeued behind keys not yet fetched
C34_Witness ==
  /\ run[1].path = "discovery"
  /\ run[1].pc \in {"processKeys", "sleep"}
  /\ run[1].failedKeys # <<>>
  /\ LET q == ReadKeys(store.q[Types[run[1].type]])
     IN /\ Len(q) > Len(run[1].failedKeys)
        /\ EndsWith(q, run[1].failedKeys)

\* C35: every row (a, w) of author_works has a row of works with key w
\* whose record has a as its first author.
C35_AuthorWorksMatchWorks ==
  \A pair \in BagToSet(tables.author_works) :
    \E r \in tables.works :
      /\ r.key = pair.work_key
      /\ HasFirstAuthor(r.data.json)
      /\ r.data.json.authors[1].author.key = pair.author_key

\* the rows of the three tables
Rows(db) == db.authors \cup db.works \cup db.editions

\* C36: the revision stored for a key never decreases.
C36_RevisionNeverDecreases ==
  [][\A r \in Rows(tables) : \A r2 \in Rows(tables') :
       r2.key = r.key => r2.revision >= r.revision]_vars

\* C37: getStore(key) after setStore(key, v) in the same process returns v,
\* from the cache or from the database, whatever the cache flags were.
C37_GetStoreReturnsSet ==
  \A p \in Procs :
    LET r == run[p]
    IN (r.got.key \in StoreKeys /\ r.written[r.got.key] # Absent)
         => r.got.value = r.written[r.got.key]

\* an invocation is spawned in this step
Spawns == \E p \in Procs : run[p].pc = "unspawned" /\ run'[p].pc = "idle"

\* the server handles a trigger in this step
Handles == env'.requests # env.requests

\* C38: a request to /tasks/update spawns an invocation exactly when its
\* peer address is 127.0.0.1 or ::1, a request from any other address spawns
\* none, and neither the route nor the cron job holds back because an
\* invocation is active: each of them spawns whenever it fires.
C38_SpawnOnlyForLoopback ==
  [][/\ Spawns => /\ Handles
                  /\ \/ env'.trigger = "cron"
                     \/ /\ env'.trigger = "route"
                        /\ env'.path = "/tasks/update"
                        /\ env'.peer \in {"127.0.0.1", "::1"}
     /\ (Handles /\ env'.trigger = "route" /\ env'.peer \notin {"127.0.0.1", "::1"})
          => ~Spawns
     /\ (Handles /\ env'.trigger = "route" /\ env'.path = "/tasks/update"
            /\ env'.peer \in {"127.0.0.1", "::1"}) => Spawns
     /\ (Handles /\ env'.trigger = "cron") => Spawns]_vars

\* an invocation was spawned by the route while another one is at work
C38_Witness ==
  /\ env.trigger = "route"
  /\ env.path = "/tasks/update"
  /\ env.peer \in {"127.0.0.1", "::1"}
  /\ env.busy
  /\ \E p \in Procs : run[p].pc = "idle"
  /\ RunActive

====
